---- MODULE Spec2Model ----
(***************************************************************************)
(* Model of the polygon tiling script src/main.py: the "+ Add Vertex"      *)
(* button, and the "Run Tiling" handler as a sequence of steps (vertex     *)
(* count check, grid construction, polygon validity check, classification  *)
(* loop, counting loop, total).                                            *)
(*                                                                         *)
(* Numbers.  Vertex coordinates are integers (a subset of the floats the   *)
(* number inputs deliver); tile sizes are positive integers as in the      *)
(* script (min_value=1).  Areas are kept in quarter units (area * 4), so   *)
(* a coverage fraction is area4 / TileArea4 and partial_fraction_pool is   *)
(* the numerator of a sum of such fractions.  Arithmetic is exact; the     *)
(* rounding of Python floats is not modelled.                              *)
(*                                                                         *)
(* Geometry.  The polygons a run is given are drawn from the lattice       *)
(* polygons whose edges are horizontal, vertical or diagonal (slope +-1).  *)
(* Every unit square of the lattice is cut by its two diagonals into four  *)
(* triangles of area 1/4; no edge of such a polygon enters the interior of *)
(* one of them, so poly.intersection(t).area * 4 is the number of those    *)
(* triangles whose inner point lies in the polygon.                        *)
(***************************************************************************)
EXTENDS Integers, Sequences, FiniteSets, TLC

VARIABLES
    num_vertices,          \* st.session_state.num_vertices
    vertices,              \* the vertex list read from the number inputs
    tile_w, tile_h,        \* the tile size inputs
    pc,                    \* position of the script run
    message,               \* the st.error text shown, "" when none
    bound,                 \* names bound in the namespace of the current run
    x_min, x_max, y_min, y_max,
    n_cols, n_rows,
    grid_cells,            \* sequence of <<<<x0, y0>>, <<i, j>>>>
    classified_tiles,      \* sequence of <<<<i, j>>, status>>
    overlap_area,          \* per cell: poly.intersection(t).area, in quarter units
    pos,                   \* index of the next cell of the counting loop
    full_tile_count,
    partial_rollup_count,
    partial_fraction_pool, \* numerator over TileArea4
    total_tile_count

vars == <<num_vertices, vertices, tile_w, tile_h, pc, message, bound,
          x_min, x_max, y_min, y_max, n_cols, n_rows, grid_cells,
          classified_tiles, overlap_area, pos, full_tile_count,
          partial_rollup_count, partial_fraction_pool, total_tile_count>>

(* ------------------------------ bounds --------------------------------- *)

MaxCoord == 1
MaxTile == 2
MaxVertices == 4
MaxCells == 4
MaxGridCoord == 4
MaxGridTile == 4

Coords == (-1)..MaxCoord
Points == Coords \X Coords
TileSizes == 1..MaxTile

\* bounding boxes and tile sizes of the grid construction on its own
GridCoords == (-2)..MaxGridCoord
GridTileSizes == 1..MaxGridTile

\* overlap areas, in twentieths of a tile, of the partially inside cells of
\* the counting pass on its own: 0, 0.15, 0.3, 0.5 and 0.55 of a tile
PartialAreas == {0, 3, 6, 10, 11}

(* --------------------------- program constants ------------------------- *)

InitialVertices == 3

\* the promotion threshold 0.55 as the fraction ThresholdNum / ThresholdDen
ThresholdNum == 11
ThresholdDen == 20

(* ------------------------------ arithmetic ----------------------------- *)

Floor(a, b) == a \div b

Ceil(a, b) == 0 - ((0 - a) \div b)

Min(S) == CHOOSE m \in S : \A s \in S : m <= s

Max(S) == CHOOSE m \in S : \A s \in S : m >= s

Abs(a) == IF a < 0 THEN 0 - a ELSE a

(* ------------------------------- geometry ------------------------------ *)

\* successor index on a ring of n vertices
Succ(i, n) == (i % n) + 1

Cross(o, a, b) == (a[1] - o[1]) * (b[2] - o[2]) - (a[2] - o[2]) * (b[1] - o[1])

\* p lies in the bounding box of the segment a b
InBox(a, b, p) ==
    /\ Min({a[1], b[1]}) <= p[1] /\ p[1] <= Max({a[1], b[1]})
    /\ Min({a[2], b[2]}) <= p[2] /\ p[2] <= Max({a[2], b[2]})

\* the closed segments p1 p2 and p3 p4 share a point
SegmentsMeet(p1, p2, p3, p4) ==
    LET d1 == Cross(p3, p4, p1)
        d2 == Cross(p3, p4, p2)
        d3 == Cross(p1, p2, p3)
        d4 == Cross(p1, p2, p4)
    IN  \/ /\ d1 * d2 < 0
           /\ d3 * d4 < 0
        \/ d1 = 0 /\ InBox(p3, p4, p1)
        \/ d2 = 0 /\ InBox(p3, p4, p2)
        \/ d3 = 0 /\ InBox(p1, p2, p3)
        \/ d4 = 0 /\ InBox(p1, p2, p4)

\* the ring with repeated consecutive points dropped (the last against the first too)
RECURSIVE Dedup(_, _)
Dedup(v, i) ==
    IF i > Len(v) THEN <<>>
    ELSE IF v[i] = v[Succ(i, Len(v))] THEN Dedup(v, i + 1)
    ELSE <<v[i]>> \o Dedup(v, i + 1)

\* poly.is_valid of ShapelyPolygon(v): the ring is simple and encloses area
IsValid(v) ==
    LET r == Dedup(v, 1)
        n == Len(r)
    IN  /\ n >= 3
        /\ \A i \in 1..n : \A j \in 1..n :
              i < j =>
                LET a1 == r[i]
                    a2 == r[Succ(i, n)]
                    b1 == r[j]
                    b2 == r[Succ(j, n)]
                IN  IF j = i + 1
                    THEN ~(Cross(a1, a2, b2) = 0
                           /\ (a1[1] - a2[1]) * (b2[1] - a2[1])
                              + (a1[2] - a2[2]) * (b2[2] - a2[2]) > 0)
                    ELSE IF i = 1 /\ j = n
                    THEN ~(Cross(b1, b2, a2) = 0
                           /\ (b1[1] - b2[1]) * (a2[1] - b2[1])
                              + (b1[2] - b2[2]) * (a2[2] - b2[2]) > 0)
                    ELSE ~SegmentsMeet(a1, a2, b1, b2)

\* the point q, given in coordinates scaled by 4 and on no lattice line,
\* lies inside the polygon v (crossing number of the ray to the right)
PointInPoly(q, v) ==
    LET n == Len(v)
        Crosses(i) ==
            LET ax == 4 * v[i][1]
                ay == 4 * v[i][2]
                bx == 4 * v[Succ(i, n)][1]
                by == 4 * v[Succ(i, n)][2]
                d == by - ay
                t == (ax - q[1]) * d + (q[2] - ay) * (bx - ax)
            IN  /\ (ay > q[2]) # (by > q[2])
                /\ \/ d > 0 /\ t > 0
                   \/ d < 0 /\ t < 0
    IN  Cardinality({i \in 1..n : Crosses(i)}) % 2 = 1

\* inner points (scaled by 4) of the quarter triangles of the box
\* [x0, x0 + w] x [y0, y0 + h]
QuarterPoints(x0, y0, w, h) ==
    UNION { { <<4 * a + 2, 4 * b + 1>>, <<4 * a + 3, 4 * b + 2>>,
              <<4 * a + 2, 4 * b + 3>>, <<4 * a + 1, 4 * b + 2>> } :
            <<a, b>> \in (x0..(x0 + w - 1)) \X (y0..(y0 + h - 1)) }

\* poly.intersection(t).area in quarter units, t = box(x0, y0, x0 + w, y0 + h)
OverlapArea4(v, x0, y0, w, h) ==
    Cardinality({q \in QuarterPoints(x0, y0, w, h) : PointInPoly(q, v)})

\* poly.covers(t): no point of t lies outside the polygon
Covers(v, x0, y0, w, h) ==
    \A q \in QuarterPoints(x0, y0, w, h) : PointInPoly(q, v)

\* the closed segment a b meets the closed box
SegmentMeetsBox(a, b, x0, y0, w, h) ==
    LET c1 == <<x0, y0>>
        c2 == <<x0 + w, y0>>
        c3 == <<x0 + w, y0 + h>>
        c4 == <<x0, y0 + h>>
    IN  \/ InBox(c1, c3, a)
        \/ InBox(c1, c3, b)
        \/ SegmentsMeet(a, b, c1, c2)
        \/ SegmentsMeet(a, b, c2, c3)
        \/ SegmentsMeet(a, b, c3, c4)
        \/ SegmentsMeet(a, b, c4, c1)

\* poly.intersects(t): polygon and box share a point, boundary points included
Intersects(v, x0, y0, w, h) ==
    \/ OverlapArea4(v, x0, y0, w, h) > 0
    \/ \E i \in 1..Len(v) : SegmentMeetsBox(v[i], v[Succ(i, Len(v))], x0, y0, w, h)

(* ------------------------------- inputs -------------------------------- *)

\* every edge of the ring is horizontal, vertical or diagonal
Octilinear(v) ==
    \A i \in 1..Len(v) :
        LET dx == v[Succ(i, Len(v))][1] - v[i][1]
            dy == v[Succ(i, Len(v))][2] - v[i][2]
        IN  dx = 0 \/ dy = 0 \/ Abs(dx) = Abs(dy)

\* the point a comes before b, or is b, in the order by x and then y
Before(a, b) == a[1] < b[1] \/ (a[1] = b[1] /\ a[2] <= b[2])

\* The vertex lists a run may read from n pairs of number inputs.  Nothing the
\* handler computes depends on where the ring starts or which way round it is
\* listed, so one list stands for its rotations and its reversal: the one that
\* starts at its first point in the order above and whose second vertex comes
\* before its last.
PolygonInputs(n) ==
    {v \in [1..n -> Points] :
        /\ Octilinear(v)
        /\ \A i \in 2..n : Before(v[1], v[i])
        /\ Before(v[2], v[n])}

(* --------------------------- grid construction ------------------------- *)

\* the lower bound snapped with ceil instead of floor
XMinCeil(xs, w) == Ceil(Min(xs), w) * w

XMin(xs, w) == Floor(Min(xs), w) * w

\* the upper bound snapped with floor instead of ceil
XMaxFloor(xs, w) == Floor(Max(xs), w) * w

XMax(xs, w) == Ceil(Max(xs), w) * w

\* the extent taken for the count, the division by the tile size left out
CellCountNoDiv(lo, hi, size) == hi - lo

\* n_cols = (x_max - x_min) // tile_w, and n_rows likewise
CellCount(lo, hi, size) == (hi - lo) \div size

\* the list the two nested range loops append to: i outer, j inner
GridCells(x0, y0, nc, nr, w, h) ==
    IF nc > 0 /\ nr > 0
    THEN [k \in 1..(nc * nr) |->
            LET i == (k - 1) \div nr
                j == (k - 1) % nr
            IN  <<<<x0 + i * w, y0 + j * h>>, <<i, j>>>>]
    ELSE <<>>

Xs(v) == {v[i][1] : i \in 1..Len(v)}

Ys(v) == {v[i][2] : i \in 1..Len(v)}

(* ----------------------------- classification -------------------------- *)

Status(v, x0, y0, w, h) ==
    IF Covers(v, x0, y0, w, h) THEN "fully_inside"
    ELSE IF Intersects(v, x0, y0, w, h) THEN "partially_inside"
    ELSE "outside"

Statuses == {"fully_inside", "partially_inside", "outside"}

(* -------------------------------- counting ----------------------------- *)

\* tile_area = tile_w * tile_h, in quarter units
TileArea4 == 4 * tile_w * tile_h

\* the counting step with the pool kept at a rollup
CountStepNoReset(c, status, area4, unit) ==
    IF status = "fully_inside"
    THEN [c EXCEPT !.full = @ + 1]
    ELSE IF status = "partially_inside"
    THEN IF ThresholdDen * area4 >= ThresholdNum * unit
         THEN [c EXCEPT !.full = @ + 1]
         ELSE IF area4 # 0
         THEN LET p == c.pool + area4
              IN  IF p + area4 >= unit
                  THEN [c EXCEPT !.rollup = @ + 1, !.pool = p]
                  ELSE [c EXCEPT !.pool = p]
         ELSE c
    ELSE c

\* the counting step with the threshold test strict (fraction > 0.55)
CountStepStrict(c, status, area4, unit) ==
    IF status = "fully_inside"
    THEN [c EXCEPT !.full = @ + 1]
    ELSE IF status = "partially_inside"
    THEN IF ThresholdDen * area4 > ThresholdNum * unit
         THEN [c EXCEPT !.full = @ + 1]
         ELSE IF area4 # 0
         THEN LET p == c.pool + area4
              IN  IF p + area4 >= unit
                  THEN [c EXCEPT !.rollup = @ + 1, !.pool = 0]
                  ELSE [c EXCEPT !.pool = p]
         ELSE c
    ELSE c

\* the counting step with the threshold test applied to pool + fraction
CountStepPoolThreshold(c, status, area4, unit) ==
    IF status = "fully_inside"
    THEN [c EXCEPT !.full = @ + 1]
    ELSE IF status = "partially_inside"
    THEN IF ThresholdDen * (c.pool + area4) >= ThresholdNum * unit
         THEN [c EXCEPT !.full = @ + 1]
         ELSE IF area4 # 0
         THEN LET p == c.pool + area4
              IN  IF p + area4 >= unit
                  THEN [c EXCEPT !.rollup = @ + 1, !.pool = 0]
                  ELSE [c EXCEPT !.pool = p]
         ELSE c
    ELSE c

\* one iteration of the counting loop on the counters c, for a cell of the
\* given status whose overlap with the polygon is area4 of the tile's unit
CountStep(c, status, area4, unit) ==
    IF status = "fully_inside"
    THEN [c EXCEPT !.full = @ + 1]
    ELSE IF status = "partially_inside"
    THEN IF ThresholdDen * area4 >= ThresholdNum * unit
         THEN [c EXCEPT !.full = @ + 1]
         ELSE IF area4 # 0
         THEN LET p == c.pool + area4
              IN  IF p + area4 >= unit
                  THEN [c EXCEPT !.rollup = @ + 1, !.pool = 0]
                  ELSE [c EXCEPT !.pool = p]
         ELSE c
    ELSE c

\* the total with one tile always added for the pool
TotalOfPlusOne(c, unit) == c.full + c.rollup + 1

\* full_tile_count + partial_rollup_count + ceil(partial_fraction_pool)
TotalOf(c, unit) == c.full + c.rollup + Ceil(c.pool, unit)

Counters == [full |-> full_tile_count, rollup |-> partial_rollup_count,
             pool |-> partial_fraction_pool]

(* --------------------------------- state ------------------------------- *)

\* the namespace of a script run that has not reached the handler
FreshRun ==
    /\ message = ""
    /\ bound = {}
    /\ x_min = 0 /\ x_max = 0 /\ y_min = 0 /\ y_max = 0
    /\ n_cols = 0 /\ n_rows = 0
    /\ grid_cells = <<>>
    /\ classified_tiles = <<>>
    /\ overlap_area = <<>>
    /\ pos = 0
    /\ full_tile_count = 0
    /\ partial_rollup_count = 0
    /\ partial_fraction_pool = 0
    /\ total_tile_count = 0

\* a rerun of the script starts from an empty namespace
Rerun ==
    /\ message' = ""
    /\ bound' = {}
    /\ x_min' = 0 /\ x_max' = 0 /\ y_min' = 0 /\ y_max' = 0
    /\ n_cols' = 0 /\ n_rows' = 0
    /\ grid_cells' = <<>>
    /\ classified_tiles' = <<>>
    /\ overlap_area' = <<>>
    /\ pos' = 0
    /\ full_tile_count' = 0
    /\ partial_rollup_count' = 0
    /\ partial_fraction_pool' = 0
    /\ total_tile_count' = 0

Init ==
    /\ num_vertices = InitialVertices
    /\ vertices = [i \in 1..InitialVertices |-> <<0, 0>>]
    /\ tile_w = 1
    /\ tile_h = 1
    /\ pc = "idle"
    /\ FreshRun

\* Between two handler runs the model keeps the default inputs: the values
\* the user has typed are drawn when "Run Tiling" is clicked.
Defaults ==
    /\ vertices' = [i \in 1..num_vertices' |-> <<0, 0>>]
    /\ tile_w' = 1
    /\ tile_h' = 1

\* "+ Add Vertex": one more pair of number inputs, and a rerun
AddVertex ==
    /\ pc \in {"idle", "done", "stopped"}
    /\ num_vertices < MaxVertices
    /\ num_vertices' = num_vertices + 1
    /\ pc' = "idle"
    /\ Defaults
    /\ Rerun

\* any other interaction after a handler run: the script reruns from the top
\* with the button not pressed
Interact ==
    /\ pc \in {"done", "stopped"}
    /\ num_vertices' = num_vertices
    /\ pc' = "idle"
    /\ Defaults
    /\ Rerun

\* "Run Tiling" is clicked: the rerun reads the inputs and enters the handler
RunTiling ==
    /\ pc = "idle"
    /\ \E v \in PolygonInputs(num_vertices) : vertices' = v
    /\ tile_w' \in TileSizes
    /\ tile_h' \in TileSizes
    /\ pc' = "check"
    /\ Rerun
    /\ UNCHANGED num_vertices

CheckVertices ==
    /\ pc = "check"
    /\ IF Len(vertices) < 3
       THEN /\ message' = "Polygon must have at least 3 vertices."
            /\ pc' = "stopped"
       ELSE /\ message' = message
            /\ pc' = "grid"
    /\ UNCHANGED <<num_vertices, vertices, tile_w, tile_h, bound,
                   x_min, x_max, y_min, y_max, n_cols, n_rows, grid_cells,
                   classified_tiles, overlap_area, pos, full_tile_count,
                   partial_rollup_count, partial_fraction_pool, total_tile_count>>

BuildGrid ==
    /\ pc = "grid"
    /\ x_min' = XMin(Xs(vertices), tile_w)
    /\ x_max' = XMax(Xs(vertices), tile_w)
    /\ y_min' = XMin(Ys(vertices), tile_h)
    /\ y_max' = XMax(Ys(vertices), tile_h)
    /\ n_cols' = CellCount(x_min', x_max', tile_w)
    /\ n_rows' = CellCount(y_min', y_max', tile_h)
    /\ grid_cells' = GridCells(x_min', y_min', n_cols', n_rows', tile_w, tile_h)
    /\ bound' = bound \cup {"x_min", "x_max", "y_min", "y_max", "n_cols", "n_rows",
                            "grid_cells"}
    /\ pc' = "valid"
    /\ UNCHANGED <<num_vertices, vertices, tile_w, tile_h, message,
                   classified_tiles, overlap_area, pos, full_tile_count,
                   partial_rollup_count, partial_fraction_pool, total_tile_count>>

Validate ==
    /\ pc = "valid"
    /\ bound' = bound \cup {"poly"}
    /\ IF ~IsValid(vertices)
       THEN /\ message' = "Invalid polygon geometry"
            /\ pc' = "stopped"
       ELSE /\ message' = message
            /\ pc' = "classify"
    /\ UNCHANGED <<num_vertices, vertices, tile_w, tile_h,
                   x_min, x_max, y_min, y_max, n_cols, n_rows, grid_cells,
                   classified_tiles, overlap_area, pos, full_tile_count,
                   partial_rollup_count, partial_fraction_pool, total_tile_count>>

Classify ==
    /\ pc = "classify"
    /\ classified_tiles' =
          [k \in 1..Len(grid_cells) |->
              <<grid_cells[k][2],
                Status(vertices, grid_cells[k][1][1], grid_cells[k][1][2],
                       tile_w, tile_h)>>]
    /\ overlap_area' =
          [k \in 1..Len(grid_cells) |->
              OverlapArea4(vertices, grid_cells[k][1][1], grid_cells[k][1][2],
                           tile_w, tile_h)]
    /\ bound' = bound \cup {"classified_tiles"}
    /\ pc' = "plot"
    /\ UNCHANGED <<num_vertices, vertices, tile_w, tile_h, message,
                   x_min, x_max, y_min, y_max, n_cols, n_rows, grid_cells,
                   pos, full_tile_count, partial_rollup_count,
                   partial_fraction_pool, total_tile_count>>

\* the plot is drawn and the counters are set to zero
StartCount ==
    /\ pc = "plot"
    /\ full_tile_count' = 0
    /\ partial_rollup_count' = 0
    /\ partial_fraction_pool' = 0
    /\ pos' = 1
    /\ bound' = bound \cup {"tile_area", "full_tile_count", "partial_rollup_count",
                            "partial_fraction_pool"}
    /\ pc' = "count"
    /\ UNCHANGED <<num_vertices, vertices, tile_w, tile_h, message,
                   x_min, x_max, y_min, y_max, n_cols, n_rows, grid_cells,
                   classified_tiles, overlap_area, total_tile_count>>

\* one iteration of the counting loop
CountCell ==
    /\ pc = "count"
    /\ pos <= Len(grid_cells)
    /\ LET c == CountStep(Counters, classified_tiles[pos][2], overlap_area[pos],
                          TileArea4)
       IN  /\ full_tile_count' = c.full
           /\ partial_rollup_count' = c.rollup
           /\ partial_fraction_pool' = c.pool
    /\ pos' = pos + 1
    /\ UNCHANGED <<num_vertices, vertices, tile_w, tile_h, pc, message, bound,
                   x_min, x_max, y_min, y_max, n_cols, n_rows, grid_cells,
                   classified_tiles, overlap_area, total_tile_count>>

\* the loop is over: the total is computed and the results are written
Total ==
    /\ pc = "count"
    /\ pos > Len(grid_cells)
    /\ total_tile_count' = TotalOf(Counters, TileArea4)
    /\ bound' = bound \cup {"total_tile_count"}
    /\ pc' = "done"
    /\ UNCHANGED <<num_vertices, vertices, tile_w, tile_h, message,
                   x_min, x_max, y_min, y_max, n_cols, n_rows, grid_cells,
                   classified_tiles, overlap_area, pos, full_tile_count,
                   partial_rollup_count, partial_fraction_pool>>

Next ==
    \/ AddVertex
    \/ Interact
    \/ RunTiling
    \/ CheckVertices
    \/ BuildGrid
    \/ Validate
    \/ Classify
    \/ StartCount
    \/ CountCell
    \/ Total

Spec == Init /\ [][Next]_vars

(***************************************************************************)
(* The counting pass on its own (lines 112-132): it is entered with a      *)
(* column of up to MaxCells cells of a 5 x 1 tile (20 quarter units), each *)
(* with any status and, when partially inside, any of PartialAreas.        *)
(***************************************************************************)

CellInputs ==
    {<<"fully_inside", 20>>, <<"outside", 0>>}
        \cup {<<"partially_inside", a>> : a \in PartialAreas}

InitCount ==
    /\ num_vertices = InitialVertices
    /\ vertices = [i \in 1..InitialVertices |-> <<0, 0>>]
    /\ tile_w = 5
    /\ tile_h = 1
    /\ pc = "count"
    /\ message = ""
    /\ bound = {"x_min", "x_max", "y_min", "y_max", "n_cols", "n_rows",
                "grid_cells", "poly", "classified_tiles", "tile_area",
                "full_tile_count", "partial_rollup_count", "partial_fraction_pool"}
    /\ \E n \in 0..MaxCells :
          /\ x_min = 0 /\ x_max = 5 /\ y_min = 0 /\ y_max = n
          /\ n_cols = 1 /\ n_rows = n
          /\ grid_cells = GridCells(0, 0, 1, n, 5, 1)
          /\ \E cells \in [1..n -> CellInputs] :
                /\ classified_tiles = [k \in 1..n |-> <<<<0, k - 1>>, cells[k][1]>>]
                /\ overlap_area = [k \in 1..n |-> cells[k][2]]
    /\ pos = 1
    /\ full_tile_count = 0
    /\ partial_rollup_count = 0
    /\ partial_fraction_pool = 0
    /\ total_tile_count = 0

NextCount ==
    \/ CountCell
    \/ Total

SpecCount == InitCount /\ [][NextCount]_vars

\* the counters after the counting loop has visited the cells order[k], order[k+1], ...
\* in that order, starting from the counters c
RECURSIVE CountFrom(_, _, _)
CountFrom(order, k, c) ==
    IF k > Len(order) THEN c
    ELSE CountFrom(order, k + 1,
                   CountStep(c, classified_tiles[order[k]][2],
                             overlap_area[order[k]], TileArea4))

ZeroCounters == [full |-> 0, rollup |-> 0, pool |-> 0]

(***************************************************************************)
(* Grid construction on its own (lines 49-70): the handler is entered with *)
(* a right triangle spanning the bounding box [a, b] x [c, d].             *)
(***************************************************************************)

InitGrid ==
    /\ num_vertices = InitialVertices
    /\ \E a \in GridCoords, b \in GridCoords, c \in GridCoords, d \in GridCoords :
          /\ a <= b
          /\ c <= d
          /\ vertices = <<<<a, c>>, <<b, c>>, <<a, d>>>>
    /\ tile_w \in GridTileSizes
    /\ tile_h \in GridTileSizes
    /\ pc = "check"
    /\ FreshRun

NextGrid ==
    \/ CheckVertices
    \/ BuildGrid

SpecGrid == InitGrid /\ [][NextGrid]_vars

\* n_cols * n_rows of the grid built for the vertex list v and w x h tiles
CandidateCells(v, w, h) ==
    Len(GridCells(XMin(Xs(v), w), XMin(Ys(v), h),
                  CellCount(XMin(Xs(v), w), XMax(Xs(v), w), w),
                  CellCount(XMin(Ys(v), h), XMax(Ys(v), h), h), w, h))

(* -------------------------------- claims -------------------------------- *)

\* the step taken is one iteration of the counting loop
CountedCell == pc = "count" /\ pos' = pos + 1

\* the cell the next iteration visits is partially inside with a fraction f,
\* 0 < f < 0.55
PoolingCell ==
    /\ classified_tiles[pos][2] = "partially_inside"
    /\ overlap_area[pos] > 0
    /\ ThresholdDen * overlap_area[pos] < ThresholdNum * TileArea4

\* C1: for a partially inside cell with 0 < f < 0.55, the rollup is incremented
\* and the pool reset to 0 exactly when pool_before + f >= 1; otherwise the
\* rollup is unchanged and the pool becomes pool_before + f.
C1_RollupWhenPoolReachesOne ==
    [][(CountedCell /\ PoolingCell) =>
          IF partial_fraction_pool + overlap_area[pos] >= TileArea4
          THEN /\ partial_rollup_count' = partial_rollup_count + 1
               /\ partial_fraction_pool' = 0
          ELSE /\ partial_rollup_count' = partial_rollup_count
               /\ partial_fraction_pool' = partial_fraction_pool + overlap_area[pos]]_vars

\* the number written for the residual pool: 0 for an empty pool, else 1
PoolTile == IF partial_fraction_pool = 0 THEN 0 ELSE 1

\* C2: after every step of the counting pass the residual pool lies in [0, 1),
\* the counts are non-negative, and the reported total is
\* full_tile_count + rollup_count + (0 if the pool is 0, else 1).
C2_PoolBelowOne ==
    pc \in {"count", "done"} =>
        /\ 0 <= partial_fraction_pool
        /\ partial_fraction_pool < TileArea4
        /\ full_tile_count >= 0
        /\ partial_rollup_count >= 0
        /\ pc = "done" =>
              /\ total_tile_count = full_tile_count + partial_rollup_count + PoolTile
              /\ total_tile_count >= 0

\* a pass that rolled up, counted a full tile and ends with a residual pool
C2_Witness ==
    /\ pc = "done"
    /\ partial_rollup_count >= 1
    /\ full_tile_count >= 1
    /\ partial_fraction_pool > 0

\* C3: a run given an invalid polygon stops with the error before any grid
\* extent or grid cell has been computed.
C3_InvalidStopsBeforeGrid ==
    pc = "stopped" =>
        /\ message # ""
        /\ bound \cap {"x_min", "x_max", "y_min", "y_max", "n_cols", "n_rows",
                       "grid_cells"} = {}

\* C4: a cell that has no area in common with the polygon (it shares boundary
\* points with it at most) is classified outside.
C4_BoundaryOnlyIsOutside ==
    "classified_tiles" \in bound =>
        \A k \in 1..Len(classified_tiles) :
            overlap_area[k] = 0 => classified_tiles[k][2] = "outside"

\* the counters and the total of the counting loop run over the cells in the
\* order given by the permutation
CountsIn(order) ==
    LET c == CountFrom(order, 1, ZeroCounters)
    IN  <<c.full, c.rollup, TotalOf(c, TileArea4)>>

Orders == Permutations(1..Len(grid_cells))

\* C5: the counts do not depend on the order in which the cells are visited:
\* every permutation of the cell sequence yields the same full_tile_count,
\* rollup_count and total.
C5_CountsOrderIndependent ==
    pc = "done" =>
        \A order \in Orders :
            CountsIn(order) = <<full_tile_count, partial_rollup_count, total_tile_count>>

\* C5 as amended: full_tile_count does not depend on the order of the cells.
C5_FullCountOrderIndependent ==
    pc = "done" =>
        \A order \in Orders : CountsIn(order)[1] = full_tile_count

\* a finished pass with a full tile counted whose total changes under another
\* order of the cells
C5_Witness ==
    /\ pc = "done"
    /\ full_tile_count >= 1
    /\ \E order \in Orders : CountsIn(order)[3] # total_tile_count

\* the bounding box of the vertex list has positive width, positive height
WideBox == Min(Xs(vertices)) < Max(Xs(vertices))

TallBox == Min(Ys(vertices)) < Max(Ys(vertices))

\* C6: for a fixed bounding box, a larger tile_w (tile_h fixed) or a larger
\* tile_h (tile_w fixed) never gives more candidate cells.  Stated for the
\* boxes of positive width and height, the ones a polygon with area has.
C6_LargerTileNoMoreCells ==
    ("grid_cells" \in bound /\ WideBox /\ TallBox) =>
        /\ \A w2 \in GridTileSizes :
              w2 >= tile_w => CandidateCells(vertices, w2, tile_h) <= Len(grid_cells)
        /\ \A h2 \in GridTileSizes :
              h2 >= tile_h => CandidateCells(vertices, tile_w, h2) <= Len(grid_cells)

\* C6 as amended: for a bounding box of positive width, a tile_w that is a
\* multiple of the given one never gives more candidate cells; likewise for
\* positive height and tile_h.
C6_MultipleTileNoMoreCells ==
    "grid_cells" \in bound =>
        /\ \A w2 \in GridTileSizes :
              (WideBox /\ w2 % tile_w = 0) =>
                  CandidateCells(vertices, w2, tile_h) <= Len(grid_cells)
        /\ \A h2 \in GridTileSizes :
              (TallBox /\ h2 % tile_h = 0) =>
                  CandidateCells(vertices, tile_w, h2) <= Len(grid_cells)

\* a grid of 2-wide tiles on a box of positive width and height that has more
\* cells than the grid of 4-wide tiles
C6_Witness ==
    /\ "grid_cells" \in bound
    /\ WideBox
    /\ TallBox
    /\ tile_w = 2
    /\ CandidateCells(vertices, 4, tile_h) < Len(grid_cells)

\* lo is the largest multiple of size that is <= v
SnappedDown(lo, v, size) == lo % size = 0 /\ lo <= v /\ v - lo < size

\* hi is the smallest multiple of size that is >= v
SnappedUp(hi, v, size) == hi % size = 0 /\ hi >= v /\ hi - v < size

\* C7: the extent is the bounding box snapped outward to tile multiples, so it
\* contains the box; n_cols * tile_w and n_rows * tile_h are its width and
\* height; exactly one cell is emitted for each (i, j), with origin
\* (x_min + i * tile_w, y_min + j * tile_h); and classification yields one
\* entry per cell in the same order.
C7_GridCoversExtent ==
    "grid_cells" \in bound =>
        /\ SnappedDown(x_min, Min(Xs(vertices)), tile_w)
        /\ SnappedUp(x_max, Max(Xs(vertices)), tile_w)
        /\ SnappedDown(y_min, Min(Ys(vertices)), tile_h)
        /\ SnappedUp(y_max, Max(Ys(vertices)), tile_h)
        /\ n_cols >= 0
        /\ n_rows >= 0
        /\ n_cols * tile_w = x_max - x_min
        /\ n_rows * tile_h = y_max - y_min
        /\ Len(grid_cells) = n_cols * n_rows
        /\ \A i \in 0..(n_cols - 1) : \A j \in 0..(n_rows - 1) :
              Cardinality({k \in 1..Len(grid_cells) :
                              grid_cells[k] = <<<<x_min + i * tile_w, y_min + j * tile_h>>,
                                                <<i, j>>>>}) = 1
        /\ "classified_tiles" \in bound =>
              /\ Len(classified_tiles) = Len(grid_cells)
              /\ \A k \in 1..Len(grid_cells) :
                    /\ classified_tiles[k][1] = grid_cells[k][2]
                    /\ classified_tiles[k][2] \in Statuses

\* a classified 2 x 2 grid whose extent is larger than the bounding box on
\* every side
C7_Witness ==
    /\ "classified_tiles" \in bound
    /\ n_cols = 2
    /\ n_rows = 2
    /\ x_min < Min(Xs(vertices))
    /\ x_max > Max(Xs(vertices))
    /\ y_min < Min(Ys(vertices))
    /\ y_max > Max(Ys(vertices))

\* C8: a bounding box of zero width gives n_cols = 0, one of zero height gives
\* n_rows = 0; the grid is then empty and no tile is counted.
C8_DegenerateBoxEmptyGrid ==
    "grid_cells" \in bound =>
        /\ ~WideBox => n_cols = 0
        /\ ~TallBox => n_rows = 0
        /\ (~WideBox \/ ~TallBox) =>
              /\ grid_cells = <<>>
              /\ bound \cap {"full_tile_count", "total_tile_count"} = {}

\* C8 as amended: a bounding box of zero width gives n_cols = 0 when the common
\* x is a multiple of tile_w and n_cols = 1 otherwise, likewise n_rows for zero
\* height; in both cases the run stops at the validity check and no tile is
\* counted.
C8_DegenerateBoxAtMostOneLine ==
    "grid_cells" \in bound =>
        /\ ~WideBox => n_cols = IF Min(Xs(vertices)) % tile_w = 0 THEN 0 ELSE 1
        /\ ~TallBox => n_rows = IF Min(Ys(vertices)) % tile_h = 0 THEN 0 ELSE 1
        /\ (~WideBox \/ ~TallBox) =>
              /\ pc \in {"valid", "stopped"}
              /\ bound \cap {"classified_tiles", "full_tile_count",
                             "total_tile_count"} = {}

\* a run stopped on a polygon of zero width for which a cell was generated
C8_Witness ==
    /\ pc = "stopped"
    /\ "grid_cells" \in bound
    /\ ~WideBox
    /\ n_cols = 1
    /\ Len(grid_cells) >= 1

\* the three counters are the same after the step
CountersKept ==
    /\ full_tile_count' = full_tile_count
    /\ partial_rollup_count' = partial_rollup_count
    /\ partial_fraction_pool' = partial_fraction_pool

\* full_tile_count is one more after the step, the other two are the same
OnlyFullIncremented ==
    /\ full_tile_count' = full_tile_count + 1
    /\ partial_rollup_count' = partial_rollup_count
    /\ partial_fraction_pool' = partial_fraction_pool

\* C9: a partially inside cell with fraction >= 0.55 (0.55 included) and a
\* fully inside cell each increment full_tile_count by one and leave the pool
\* and the rollup count unchanged; an outside cell and a cell with fraction 0
\* change no counter.
C9_ThresholdCellCountsFull ==
    [][CountedCell =>
          LET status == classified_tiles[pos][2]
              area4 == overlap_area[pos]
          IN  /\ (status = "partially_inside"
                    /\ ThresholdDen * area4 >= ThresholdNum * TileArea4)
                  => OnlyFullIncremented
              /\ status = "fully_inside" => OnlyFullIncremented
              /\ status = "outside" => CountersKept
              /\ (status = "partially_inside" /\ area4 = 0) => CountersKept]_vars

\* a cell with fraction exactly 0.55 has just been counted as full while the
\* pool was not empty
C9_Witness ==
    /\ pc = "count"
    /\ pos > 1
    /\ classified_tiles[pos - 1][2] = "partially_inside"
    /\ ThresholdDen * overlap_area[pos - 1] = ThresholdNum * TileArea4
    /\ full_tile_count >= 1
    /\ partial_fraction_pool > 0

\* the number of cells among the first n that are not outside
NotOutside(n) ==
    Cardinality({k \in 1..n : classified_tiles[k][2] # "outside"})

\* C10: the total never exceeds the number of cells classified fully or
\* partially inside: the cells visited so far account for at least
\* full + rollup + ceil(pool), and the reported total for all of them.
C10_TotalAtMostInsideCells ==
    /\ pc = "count" => TotalOf(Counters, TileArea4) <= NotOutside(pos - 1)
    /\ pc = "done" => total_tile_count <= NotOutside(Len(classified_tiles))

\* a finished pass with an outside cell, a rollup and a residual pool whose
\* total is the number of cells not outside
C10_Witness ==
    /\ pc = "done"
    /\ \E k \in 1..Len(classified_tiles) : classified_tiles[k][2] = "outside"
    /\ partial_rollup_count >= 1
    /\ partial_fraction_pool > 0
    /\ total_tile_count = NotOutside(Len(classified_tiles))

====
